---- MODULE Spec2Model ----
(***************************************************************************)
(* Batch controller of the text-replace panel (src/TestCursorPlugin/       *)
(* index.js, the second, current copy of the script: lines 2112-4299).     *)
(* The panel's click handlers are async functions driven by the host's     *)
(* event loop: a handler runs without interruption up to its next await    *)
(* on a host call, and any other handler may run while it is suspended.    *)
(* Every action below is one such uninterrupted stretch of one handler.    *)
(* What the host answers (the active document, the outcome of a folder or  *)
(* relay operation) is an input of the stretch that reads it.              *)
(***************************************************************************)
EXTENDS Integers, Sequences, FiniteSets, TLC

\* Largest number of rows of a loaded CSV.
MaxRows == 2

\* Invocations of processTextReplacement that can be in flight together
\* (the Process button stays clickable while a run is suspended).
Procs == {1, 2}

\* "no row": the value of a row-index field that holds no row.
NoRow == -1

\* Largest number of indexed text layers of the active document.
MaxLayers == 2

VARIABLES
    csvLen,                   \* textReplaceState.data.csvData: 0 is null, n > 0 its length
    outputFolder,             \* textReplaceState.data.outputFolder is set (not null)
    processedRows,            \* textReplaceState.status.performance.processedRows
    stopProcessingRequested,  \* the module-level stop flag
    isProcessing,             \* textReplaceState.status.isProcessing
    textStatus,               \* textContent of the #textStatus element
    stopShown,                \* the Stop button is displayed (style.display is not 'none')
    pc,                       \* per invocation of processTextReplacement: where it is suspended
    mode,                     \* per invocation: processType read at the click
    idx,                      \* per invocation: index of the row being processed
    stopReq,                  \* history: requestStopProcessing ran while the invocation was at work
    stoppedAt,                \* history: the iteration at which the invocation saw the stop flag
    startedWithStop,          \* history: the stop flag was set when the invocation started
    cursorStale,              \* history: csvData was replaced and processedRows was not 0 since
    resumeAt,                 \* history: the row a stopped run left for the next run to begin with
    restarted,                \* history: the Restart handler has run and no run was started since
    loadPc,                   \* the Load CSV handler
    restartPc,                \* the Restart handler
    testPc,                   \* runSingleSaveTest
    \* One call of processTextRow, followed through processLayer,
    \* replaceText, updateFontSize and saveAsPNG.
    rpc,                      \* where the call is suspended
    rowDoc,                   \* app.activeDocument is set
    rowText,                  \* per index N: the row's text{N} is non-empty
    rowFont,                  \* per index N: the row's fontsize{N} is non-empty
    textLayers,               \* the indexed text layers of the document, in layer order
    li,                       \* position of the layer loop in textLayers
    updates,                  \* processLayer: { text, fontSize }
    layerUpdates,             \* processTextRow: layers whose processLayer returned
    errors,                   \* processTextRow: the error list, as << type, layer, cause >>
    textChanged,              \* layers whose text a host command has written
    sizeChanged,              \* layers whose font size a host command has written
    fk,                       \* updateFontSize: the strategy to try next
    updateSuccess,            \* updateFontSize: updateSuccess
    updateMethods,            \* updateFontSize: updateMethods
    attempted,                \* history: << strategy, outcome >> of every strategy tried
    relayEvent,               \* history: methodsUsed of the relay event of updateFontSize
    saveTried,                \* history: << method, outcome >> of every save method tried
    diagnostic,               \* saveAsPNG: the methods whose error the diagnostic file lists
    saveResult,               \* saveAsPNG: what it returned
    destVerified,             \* history: the destination file passed the exists/size check
    filesSaved,               \* processTextRow: filesSaved.png
    rowResult,                \* processTextRow: success of the returned result
    visited                   \* history: the layers handed to processLayer, in call order

batchVars == << csvLen, outputFolder, processedRows, stopProcessingRequested,
                isProcessing, textStatus, stopShown, pc, mode, idx, stopReq,
                stoppedAt, startedWithStop, cursorStale, resumeAt, restarted,
                loadPc, restartPc, testPc >>

rowVars == << rpc, rowDoc, rowText, rowFont, textLayers, li, updates, layerUpdates,
              errors, textChanged, sizeChanged, fk, updateSuccess, updateMethods,
              attempted, relayEvent, saveTried, diagnostic, saveResult,
              destVerified, filesSaved, rowResult, visited >>

\* The file-system helpers, followed call by call: setupTextOutputFolders on
\* one output folder and writeToMCPRelay.
VARIABLES
    fsPc,                     \* where the call in progress is suspended
    pngEntry,                 \* what the output folder holds under the name Text_PNG
    setupCalls,               \* history: one record per call of setupTextOutputFolders
    relay                     \* history: the call of writeToMCPRelay in progress or last ended

fsVars == << fsPc, pngEntry, setupCalls, relay >>

\* loadTextCSV, followed on the content of the file it reads.
VARIABLES
    csvPc,                    \* where the Load CSV handler is suspended
    csvFile,                  \* the file: its header line and its data lines, as fields
    csvData,                  \* textReplaceState.data.csvData, row by row
    totalRows,                \* textReplaceState.status.performance.totalRows
    loadError                 \* the error loadTextCSV wrapped in its CSV_LOAD_ERROR

csvVars == << csvPc, csvFile, csvData, totalRows, loadError >>

\* replaceText, followed on the text it is given.
VARIABLES
    textPc,                   \* where the call of replaceText is suspended
    newText,                  \* the argument newText, character by character
    issued                    \* history: the host commands issued, with their outcome

textVars == << textPc, newText, issued >>

\* The naming of the output files of a batch, followed row by row.
\*   pc        where the export of the current row is suspended
\*   pending   the row whose file saveAsPNG is creating, with the file name
\*   exports   history: text1, text2 and file name of every row exported
\*   pngFiles  the files in the Text_PNG folder: << name, row that wrote it >>
VARIABLE naming

nameVars == << naming >>

\* executeWithRetry, followed on one command.
\*   pc          where the call of executeWithRetry is suspended
\*   maxRetries  the argument maxRetries
\*   i           the loop variable i
\*   lastError   lastError
\*   tried       history: the outcome of every batchPlay issued
\*   waited      history: << attempt it follows, delay >> of every wait
\*   out         what the call returned or threw
VARIABLE retry

retryVars == << retry >>

\* The variables of the functions that are followed on their own.
fnVars == << fsVars, csvVars, textVars, nameVars, retryVars >>

vars == << batchVars, rowVars, fnVars >>

runVars == << pc, mode, idx, stopReq, stoppedAt, startedWithStop >>

\* The batch state apart from the loaded data's length and the cursor.
batchRest == << outputFolder, stopProcessingRequested, isProcessing, textStatus,
                stopShown, runVars, cursorStale, resumeAt, restarted, loadPc,
                restartPc, testPc >>

\* app.activeDocument: none, a document without an indexed text layer, a
\* document with indexed text layers.
DocKinds == {"none", "plain", "text"}

\* The locals of processTextRow and of its callees before anything ran.
RowLocalsInit ==
    /\ li = 0
    /\ updates = [text |-> FALSE, fontSize |-> FALSE]
    /\ layerUpdates = {}
    /\ errors = {}
    /\ textChanged = {}
    /\ sizeChanged = {}
    /\ fk = 0
    /\ updateSuccess = FALSE
    /\ updateMethods = << >>
    /\ attempted = << >>
    /\ relayEvent = << >>
    /\ saveTried = << >>
    /\ diagnostic = {}
    /\ saveResult = "none"
    /\ destVerified = FALSE
    /\ filesSaved = FALSE
    /\ rowResult = "none"
    /\ visited = << >>

\* No call of processTextRow is followed.
RowIdle ==
    /\ rpc = "idle"
    /\ rowDoc = FALSE
    /\ rowText = [n \in 1..MaxLayers |-> FALSE]
    /\ rowFont = [n \in 1..MaxLayers |-> FALSE]
    /\ textLayers = << >>
    /\ RowLocalsInit

\* createPluginState and the module-level declarations, apart from the
\* loaded data, the cursor and the Stop button.
BatchRestInit ==
    /\ outputFolder = FALSE
    /\ stopProcessingRequested = FALSE
    /\ isProcessing = FALSE
    /\ textStatus = "other"
    /\ pc = [p \in Procs |-> "idle"]
    /\ mode = [p \in Procs |-> "none"]
    /\ idx = [p \in Procs |-> NoRow]
    /\ stopReq = [p \in Procs |-> FALSE]
    /\ stoppedAt = [p \in Procs |-> NoRow]
    /\ startedWithStop = [p \in Procs |-> FALSE]
    /\ cursorStale = FALSE
    /\ resumeAt = NoRow
    /\ restarted = FALSE
    /\ loadPc = "idle"
    /\ restartPc = "idle"
    /\ testPc = "idle"

\* createPluginState: no CSV is loaded and no row is processed. Whether the
\* markup displays the Stop button before the first run is left open.
BatchInit ==
    /\ stopShown \in BOOLEAN
    /\ csvLen = 0
    /\ processedRows = 0
    /\ BatchRestInit

\* A call of writeToMCPRelay before it did anything.
RelayFresh ==
    [prepared |-> 0, primary |-> "none", fallbacks |-> 0, fallback |-> "none",
     result |-> "none", code |-> "none"]

\* No call of a file-system helper is followed.
FsIdle ==
    /\ fsPc = "idle"
    /\ pngEntry = [kind |-> "missing", id |-> 0]
    /\ setupCalls = << >>
    /\ relay = RelayFresh

\* No load of a CSV file is followed.
CsvIdle ==
    /\ csvPc = "idle"
    /\ csvFile = [headers |-> << >>, lines |-> << >>]
    /\ csvData = << >>
    /\ totalRows = 0
    /\ loadError = "none"

\* No call of replaceText is followed.
TextIdle ==
    /\ textPc = "idle"
    /\ newText = << >>
    /\ issued = << >>

\* No export is followed.
NameIdle ==
    naming = [pc |-> "idle", pending |-> << >>, exports |-> << >>, pngFiles |-> {}]

\* No call of executeWithRetry is followed.
RetryIdle ==
    retry = [pc |-> "idle", maxRetries |-> 0, i |-> 0, lastError |-> "undefined",
             tried |-> << >>, waited |-> << >>, out |-> "none"]

FnIdle == FsIdle /\ CsvIdle /\ TextIdle /\ NameIdle /\ RetryIdle

Init == BatchInit /\ RowIdle /\ FnIdle

----------------------------------------------------------------------------
(* Helpers: the synchronous pieces of processTextReplacement.              *)

\* shouldStopProcessing()
shouldStopProcessing == stopProcessingRequested

\* resetStopProcessing() with its assignment left out.
resetStopProcessingNoop(flag) == flag

\* The value resetStopProcessing() leaves in the stop flag.
resetStopProcessing(flag) == FALSE

\* The value requestStopProcessing() leaves in the stop flag.
requestStopProcessing(flag) == TRUE

\* The Stop button takes a click: it is displayed and not disabled.
\* requestStopProcessing disables it as it sets the flag, and
\* resetStopProcessing enables it as it clears the flag.
StopButtonEnabled == stopShown /\ ~stopProcessingRequested

\* The validation at the head of the try block: whether it throws.
SetupError(d) == csvLen = 0 \/ ~outputFolder \/ d = "none"

\* The catch around setupTextOutputFolders swallowing the folder error.
FolderErrorSwallowed == FALSE

\* What the catch around setupTextOutputFolders does with a folder error:
\* it throws FOLDER_SETUP_FAILED, which ends the run.
FolderErrorAborts == TRUE

\* processTextRow up to its first await: it throws when there is no active
\* document or when no text layer carries an index in its name.
RowEntryThrows(d) == d = "none" \/ d = "plain"

\* The status text the outer catch shows for a throw of processTextRow:
\* 'Error: No text layers found in document' is the text of this throw
\* alone; 'Error: No active document found' is also the text of the
\* validation at the click.
RowErrorStatus(d) == IF d = "plain" THEN "noTextLayers" ELSE "error"

\* const startIndex / currentRowIndex = processedRows || 0
StartIndex == processedRows

\* The counter update storing the index of the row instead of the next one.
NextCursorStays(i) == i

\* processedRows = i + 1 (all rows), = currentRowIndex + 1 (current row)
NextCursor(i) == i + 1

\* The head of one iteration: the loop condition and the stop check of the
\* all-rows loop, the bounds check of the single-row branch.
LoopTop(type, n) ==
    IF n >= csvLen THEN "end"
    ELSE IF type = "all" /\ shouldStopProcessing THEN "stop"
    ELSE "row"

\* The per-invocation fields, once the invocation needs them no more.
ClearRun(p, to, at) ==
    /\ pc' = [pc EXCEPT ![p] = to]
    /\ mode' = [mode EXCEPT ![p] = "none"]
    /\ idx' = [idx EXCEPT ![p] = NoRow]
    /\ stopReq' = [stopReq EXCEPT ![p] = FALSE]
    /\ stoppedAt' = [stoppedAt EXCEPT ![p] = at]
    /\ startedWithStop' = [startedWithStop EXCEPT ![p] = FALSE]

\* A throw inside the try block, or the end of the run: the outer catch shows
\* the error, the finally block resets the stop flag and isProcessing.
Finish(p, status) ==
    /\ textStatus' = status
    /\ stopProcessingRequested' = resetStopProcessing(stopProcessingRequested)
    /\ isProcessing' = FALSE
    /\ stopShown' = FALSE
    /\ resumeAt' = IF stoppedAt[p] # NoRow THEN stoppedAt[p] ELSE resumeAt
    /\ UNCHANGED restarted
    /\ ClearRun(p, "idle", NoRow)

\* After the rows: hide the stop button, reset the stop flag, await the relay write.
ToRelay(p, status, at) ==
    /\ textStatus' = status
    /\ stopProcessingRequested' = resetStopProcessing(stopProcessingRequested)
    /\ stopShown' = FALSE
    /\ UNCHANGED << isProcessing, resumeAt, restarted >>
    /\ ClearRun(p, "relay", at)

\* Iteration n of invocation p, up to its next await or to the end of the
\* run; d is the active document processTextRow finds.
Advance(p, n, d) ==
    LET top == LoopTop(mode[p], n)
    IN  CASE top = "row" /\ ~RowEntryThrows(d) ->
               /\ textStatus' = "progress"
               /\ pc' = [pc EXCEPT ![p] = "inRow"]
               /\ idx' = [idx EXCEPT ![p] = n]
               /\ UNCHANGED << stopProcessingRequested, isProcessing, stopShown, mode, stopReq,
                               stoppedAt, startedWithStop, resumeAt, restarted >>
          [] top = "row" /\ RowEntryThrows(d) -> Finish(p, RowErrorStatus(d))
          [] top = "stop" -> ToRelay(p, "stopped", n)
          [] top = "end" ->
               ToRelay(p, IF mode[p] = "current" THEN "nomore"
                          ELSE IF shouldStopProcessing THEN textStatus ELSE "all",
                       NoRow)

----------------------------------------------------------------------------
(* processTextReplacement                                                  *)

\* The lowest slot that is free names the next invocation.
FreeSlot(p) == pc[p] = "idle" /\ \A q \in Procs : q < p => pc[q] # "idle"

\* Click on Process, up to the await of setupTextOutputFolders.
StartRun(p, type, d) ==
    /\ FreeSlot(p)
    /\ IF type = "none"
       THEN /\ stopProcessingRequested' = resetStopProcessing(stopProcessingRequested)
            /\ stopShown' = FALSE
            /\ UNCHANGED << isProcessing, textStatus, runVars, resumeAt, restarted >>
       ELSE IF SetupError(d)
       THEN Finish(p, "error")
       ELSE /\ stopProcessingRequested' = resetStopProcessing(stopProcessingRequested)
            /\ isProcessing' = TRUE
            /\ textStatus' = "progress"
            /\ stopShown' = TRUE
            /\ pc' = [pc EXCEPT ![p] = "setup"]
            /\ mode' = [mode EXCEPT ![p] = type]
            /\ startedWithStop' = [startedWithStop EXCEPT ![p] = stopProcessingRequested]
            /\ resumeAt' = NoRow
            /\ restarted' = FALSE
            /\ UNCHANGED << idx, stopReq, stoppedAt >>
    /\ UNCHANGED << csvLen, outputFolder, processedRows, cursorStale,
                    loadPc, restartPc, testPc >>
    /\ UNCHANGED << rowVars, fnVars >>

\* setupTextOutputFolders has settled, with the folders (ok) or with an error.
SetupDone(p, ok, d) ==
    /\ pc[p] = "setup"
    /\ IF ~ok /\ FolderErrorAborts
       THEN Finish(p, "error")
       ELSE Advance(p, StartIndex, d)
    /\ UNCHANGED << csvLen, outputFolder, processedRows, cursorStale,
                    loadPc, restartPc, testPc >>
    /\ UNCHANGED << rowVars, fnVars >>

\* processTextRow has returned its result.
RowReturn(p, d) ==
    /\ pc[p] = "inRow"
    /\ UNCHANGED << rowVars, fnVars >>
    /\ processedRows' = NextCursor(idx[p])
    /\ UNCHANGED << csvLen, outputFolder, cursorStale, loadPc, restartPc, testPc >>
    /\ IF mode[p] = "current"
       THEN ToRelay(p, "processed", NoRow)
       ELSE Advance(p, idx[p] + 1, d)

\* The closing writeToMCPRelay has settled: the run ends through finally,
\* through the outer catch first when the write failed.
RelayDone(p, ok) ==
    /\ pc[p] = "relay"
    /\ UNCHANGED << rowVars, fnVars >>
    /\ UNCHANGED << csvLen, outputFolder, processedRows, cursorStale,
                    loadPc, restartPc, testPc >>
    /\ Finish(p, IF ok THEN textStatus ELSE "error")

----------------------------------------------------------------------------
(* The other handlers                                                      *)

\* Click on Stop.
RequestStop ==
    /\ StopButtonEnabled
    /\ UNCHANGED << rowVars, fnVars >>
    /\ stopProcessingRequested' = requestStopProcessing(stopProcessingRequested)
    /\ textStatus' = "stopping"
    /\ stopReq' = [p \in Procs |-> stopReq[p] \/ pc[p] \in {"setup", "inRow"}]
    /\ UNCHANGED << csvLen, outputFolder, processedRows, isProcessing, stopShown, pc, mode,
                    idx, stoppedAt, startedWithStop, cursorStale, resumeAt, restarted,
                    loadPc, restartPc, testPc >>

\* Load CSV: the file was read and parsed into n rows; loadTextCSV installs
\* them and awaits its relay write.
LoadParsed(n) ==
    /\ loadPc = "idle"
    /\ UNCHANGED << rowVars, fnVars >>
    /\ csvLen' = n
    /\ loadPc' = "relay"
    /\ cursorStale' = (processedRows # 0)
    /\ resumeAt' = NoRow
    /\ stoppedAt' = [p \in Procs |-> NoRow]
    /\ UNCHANGED << outputFolder, processedRows, stopProcessingRequested, isProcessing, stopShown,
                    textStatus, pc, mode, idx, stopReq, startedWithStop, restarted,
                    restartPc, testPc >>

\* Load CSV: reading or parsing failed; nothing is installed.
LoadFailed ==
    /\ loadPc = "idle"
    /\ UNCHANGED << rowVars, fnVars >>
    /\ textStatus' = "other"
    /\ UNCHANGED << csvLen, outputFolder, processedRows, stopProcessingRequested,
                    isProcessing, stopShown, runVars, cursorStale, resumeAt, restarted,
                    loadPc, restartPc, testPc >>

\* Load CSV: the relay write of loadTextCSV has settled. Only when it
\* succeeded does the click listener go on to reset processedRows.
LoadRelayDone(ok) ==
    /\ loadPc = "relay"
    /\ UNCHANGED << rowVars, fnVars >>
    /\ loadPc' = "idle"
    /\ textStatus' = "other"
    /\ IF ok
       THEN /\ processedRows' = 0
            /\ cursorStale' = FALSE
            /\ stoppedAt' = [p \in Procs |-> NoRow]
            /\ resumeAt' = NoRow
       ELSE UNCHANGED << processedRows, cursorStale, stoppedAt, resumeAt >>
    /\ UNCHANGED << csvLen, outputFolder, stopProcessingRequested, isProcessing, stopShown,
                    pc, mode, idx, stopReq, startedWithStop, restarted, restartPc, testPc >>

\* Select Output Folder: getFolder has settled with a folder or with null.
SelectOutputFolder(f) ==
    /\ outputFolder' = f
    /\ UNCHANGED << rowVars, fnVars >>
    /\ textStatus' = IF f THEN "other" ELSE textStatus
    /\ UNCHANGED << csvLen, processedRows, stopProcessingRequested, isProcessing, stopShown,
                    runVars, cursorStale, resumeAt, restarted, loadPc, restartPc, testPc >>

\* Restart: the counter is reset before the relay write is awaited.
RestartClick ==
    /\ restartPc = "idle"
    /\ UNCHANGED << rowVars, fnVars >>
    /\ restartPc' = "relay"
    /\ processedRows' = 0
    /\ cursorStale' = FALSE
    /\ stoppedAt' = [p \in Procs |-> NoRow]
    /\ resumeAt' = NoRow
    /\ textStatus' = IF csvLen > 0 THEN "other" ELSE textStatus
    /\ UNCHANGED << csvLen, outputFolder, stopProcessingRequested, isProcessing, stopShown,
                    pc, mode, idx, stopReq, startedWithStop, restarted, loadPc, testPc >>

\* Restart: the relay write has settled and the button is enabled again.
RestartDone(ok) ==
    /\ restartPc = "relay"
    /\ UNCHANGED << rowVars, fnVars >>
    /\ restartPc' = "idle"
    /\ restarted' = TRUE
    /\ UNCHANGED << csvLen, outputFolder, processedRows, stopProcessingRequested,
                    isProcessing, stopShown, textStatus, runVars, cursorStale, resumeAt,
                    loadPc, testPc >>

\* runSingleSaveTest: the click, up to the await of setupTextOutputFolders.
TestClick(d) ==
    /\ testPc = "idle"
    /\ UNCHANGED << rowVars, fnVars >>
    /\ d # "none" /\ outputFolder /\ csvLen > 0
    /\ testPc' = "setup"
    /\ UNCHANGED << csvLen, outputFolder, processedRows, stopProcessingRequested,
                    isProcessing, stopShown, textStatus, runVars, cursorStale, resumeAt, restarted,
                    loadPc, restartPc >>

\* runSingleSaveTest: setupTextOutputFolders has settled. A throw of
\* processTextRow is caught and the save is tried all the same.
TestSetupDone(ok, d) ==
    /\ testPc = "setup"
    /\ UNCHANGED << rowVars, fnVars >>
    /\ testPc' = IF ~ok THEN "idle" ELSE IF RowEntryThrows(d) THEN "save" ELSE "row"
    /\ UNCHANGED << csvLen, outputFolder, processedRows, stopProcessingRequested,
                    isProcessing, stopShown, textStatus, runVars, cursorStale, resumeAt, restarted,
                    loadPc, restartPc >>

\* runSingleSaveTest: processTextRow, then saveAsPNG, has settled.
TestStep ==
    /\ testPc \in {"row", "save"}
    /\ UNCHANGED << rowVars, fnVars >>
    /\ testPc' = IF testPc = "row" THEN "save" ELSE "idle"
    /\ UNCHANGED << csvLen, outputFolder, processedRows, stopProcessingRequested,
                    isProcessing, stopShown, textStatus, runVars, cursorStale, resumeAt, restarted,
                    loadPc, restartPc >>

\* The steps of invocation p. The active document is an input of the steps
\* that look at it: the validation of a run with a process type, and
\* processTextRow when a row follows.
RunStep(p) ==
    \/ StartRun(p, "none", "none")
    \/ \E type \in {"current", "all"}, d \in DocKinds : StartRun(p, type, d)
    \/ SetupDone(p, FALSE, "none")
    \/ \E d \in DocKinds : SetupDone(p, TRUE, d)
    \/ \E d \in DocKinds : RowReturn(p, d)
    \/ \E ok \in BOOLEAN : RelayDone(p, ok)

Next ==
    \/ \E p \in Procs : RunStep(p)
    \/ RequestStop
    \/ \E n \in 1..MaxRows : LoadParsed(n)
    \/ LoadFailed
    \/ \E ok \in BOOLEAN : LoadRelayDone(ok)
    \/ \E f \in BOOLEAN : SelectOutputFolder(f)
    \/ RestartClick
    \/ \E ok \in BOOLEAN : RestartDone(ok)
    \/ \E d \in DocKinds : TestClick(d)
    \/ TestSetupDone(FALSE, "none")
    \/ \E d \in DocKinds : TestSetupDone(TRUE, d)
    \/ TestStep

Spec == Init /\ [][Next]_vars

\* A host call invocation p awaits settles: it returns or it throws.
HostReturns(p) ==
    \/ SetupDone(p, FALSE, "none")
    \/ \E d \in DocKinds : SetupDone(p, TRUE, d)
    \/ \E d \in DocKinds : RowReturn(p, d)
    \/ \E ok \in BOOLEAN : RelayDone(p, ok)

\* The panel with a CSV loaded and the cursor anywhere in it.
RunInit ==
    /\ BatchRestInit
    /\ stopShown = FALSE
    /\ csvLen \in 1..MaxRows
    /\ processedRows \in 0..csvLen
    /\ RowIdle
    /\ FnIdle

\* The handlers that start, stop and carry on a run, and the choice of the
\* output folder.
RunNext ==
    \/ \E p \in Procs : RunStep(p)
    \/ RequestStop
    \/ \E f \in BOOLEAN : SelectOutputFolder(f)

\* Runs on the loaded CSV, under the assumption that every host call settles.
RunSpec == RunInit /\ [][RunNext]_vars /\ \A p \in Procs : WF_vars(HostReturns(p))

----------------------------------------------------------------------------
(* One row: processTextRow, processLayer, replaceText, updateFontSize      *)

rowInput == << rowDoc, rowText, rowFont, textLayers >>
layerVars == << li, updates, layerUpdates, errors, textChanged, sizeChanged >>
fontVars == << fk, updateSuccess, updateMethods, attempted, relayEvent >>
saveVars == << saveTried, diagnostic, saveResult, destVerified >>
resultVars == << filesSaved, rowResult >>

\* The layer lists a document can have: indexed text layers in any order.
LayerLists ==
    { s \in UNION { [1..n -> 1..MaxLayers] : n \in 0..MaxLayers } :
          \A i, j \in DOMAIN s : i # j => s[i] # s[j] }

\* processTextRow is called with some row on some document.
RowInit ==
    /\ BatchInit
    /\ rpc = "entry"
    /\ rowDoc \in BOOLEAN
    /\ rowText \in [1..MaxLayers -> BOOLEAN]
    /\ rowFont \in [1..MaxLayers -> BOOLEAN]
    /\ textLayers \in LayerLists
    /\ RowLocalsInit
    /\ FnIdle

\* row[`text${N}`] || row[`fontsize${N}`]
HasData(n) == rowText[n] \/ rowFont[n]

\* processLayer replacing the text of every layer it is given.
WantsTextAlways(n) == TRUE

\* processLayer: if (rowData[`text${layerIndex}`])
WantsText(n) == rowText[n]

\* processLayer: if (rowData[`fontsize${layerIndex}`])
WantsFont(n) == rowFont[n]

\* processTextRow saving whatever the layers came to.
SavesRowAlways(lu) == TRUE

\* processTextRow: if (layerUpdates.length > 0), the condition of the save.
SavesRow(lu) == lu # {}

\* processTextRow: success: layerUpdates.length > 0
RowSuccess(lu) == lu # {}

\* The names updateFontSize pushes on updateMethods.
MethodName(k) ==
    CASE k = 1 -> "DOM API"
      [] k = 2 -> "batchPlay textStyle"
      [] k = 3 -> "batchPlay property"

\* What a strategy of updateFontSize can come to: its command throws, or it
\* returns and the size read back from the layer differs from (mismatch) or
\* equals (match) the requested size.
FontOutcomes == {"threw", "mismatch", "match"}

\* Whether a strategy sets updateSuccess: it does as soon as its command and
\* the settle delay have returned; the size is not read back.
Accepts(out) == out # "threw"

\* Whether a strategy pushes its name: after its command has returned.
PushesName(out) == out # "threw"

\* The strategy blocks without their guards.
RunsStrategyAlways(k, success) == TRUE

\* The guards of the three strategy blocks: the first runs always, the
\* second and the third only while updateSuccess is false.
RunsStrategy(k, success) == k = 1 \/ ~success

\* The layer being processed.
CurLayer == textLayers[li]

\* processLayer returns its result: the layer counts as processed.
LayerReturns(upd) ==
    /\ rpc' = "loop"
    /\ updates' = upd
    /\ layerUpdates' = layerUpdates \cup {CurLayer}
    /\ UNCHANGED << li, errors >>

\* processTextRow letting a layer's error end the row.
LayerThrowsAborts(cause) ==
    /\ rpc' = "thrown"
    /\ errors' = errors \cup {<< "LAYER", CurLayer, cause >>}
    /\ UNCHANGED << li, updates, layerUpdates >>

\* processTextRow counting a layer whose processLayer threw as processed.
LayerThrowsCounts(cause) ==
    /\ rpc' = "loop"
    /\ errors' = errors \cup {<< "LAYER", CurLayer, cause >>}
    /\ layerUpdates' = layerUpdates \cup {CurLayer}
    /\ UNCHANGED << li, updates >>

\* processLayer throws LAYER_PROCESS_ERROR: processTextRow records the layer
\* in its error list and goes on with the next layer.
LayerThrows(cause) ==
    /\ rpc' = "loop"
    /\ errors' = errors \cup {<< "LAYER", CurLayer, cause >>}
    /\ UNCHANGED << li, updates, layerUpdates >>

\* updateFontSize is entered: its locals are fresh.
FontBegins ==
    /\ rpc' = "font"
    /\ fk' = 1
    /\ updateSuccess' = FALSE
    /\ updateMethods' = << >>
    /\ attempted' = << >>
    /\ relayEvent' = << >>

\* processTextRow up to the layer loop: the document and its text layers.
RowEntry ==
    /\ rpc = "entry"
    /\ rpc' = IF RowEntryThrows(IF ~rowDoc THEN "none"
                                ELSE IF Len(textLayers) = 0 THEN "plain" ELSE "text")
              THEN "thrown" ELSE "loop"
    /\ UNCHANGED << batchVars, fnVars, rowInput, visited, layerVars, fontVars, saveVars, resultVars >>

\* The head of the layer loop: the next layer, processed only when the row
\* has data for its index; after the last layer, the save or the result.
LoopStep ==
    /\ rpc = "loop"
    /\ IF li < Len(textLayers)
       THEN /\ li' = li + 1
            /\ rpc' = IF HasData(textLayers[li + 1]) THEN "layer" ELSE "loop"
            /\ visited' = IF HasData(textLayers[li + 1])
                           THEN Append(visited, textLayers[li + 1]) ELSE visited
            /\ UNCHANGED rowResult
       ELSE /\ rpc' = IF SavesRow(layerUpdates) THEN "create" ELSE "returned"
            /\ rowResult' = IF SavesRow(layerUpdates) THEN rowResult
                            ELSE IF RowSuccess(layerUpdates) THEN "success" ELSE "failure"
            /\ UNCHANGED << li, visited >>
    /\ UNCHANGED << batchVars, fnVars, rowInput, updates, layerUpdates, errors, textChanged,
                    sizeChanged, fontVars, saveVars, filesSaved >>

\* processLayer up to its first await: replaceText when the row has a text
\* for the layer, else updateFontSize when it has a font size.
LayerBegin ==
    /\ rpc = "layer"
    /\ updates' = [text |-> FALSE, fontSize |-> FALSE]
    /\ IF WantsText(CurLayer)
       THEN rpc' = "text" /\ UNCHANGED fontVars
       ELSE IF WantsFont(CurLayer)
       THEN FontBegins
       ELSE rpc' = "loop" /\ UNCHANGED fontVars
    /\ layerUpdates' = IF WantsText(CurLayer) \/ WantsFont(CurLayer)
                       THEN layerUpdates ELSE layerUpdates \cup {CurLayer}
    /\ UNCHANGED << batchVars, fnVars, rowInput, visited, li, errors, textChanged, sizeChanged,
                    saveVars, resultVars >>

\* replaceText has settled.
ReplaceTextDone(ok) ==
    /\ rpc = "text"
    /\ IF ~ok
       THEN LayerThrows("text") /\ UNCHANGED << textChanged, fontVars >>
       ELSE /\ textChanged' = textChanged \cup {CurLayer}
            /\ IF WantsFont(CurLayer)
               THEN /\ FontBegins
                    /\ updates' = [updates EXCEPT !.text = TRUE]
                    /\ UNCHANGED << li, layerUpdates, errors >>
               ELSE /\ LayerReturns([updates EXCEPT !.text = TRUE])
                    /\ UNCHANGED fontVars
    /\ UNCHANGED << batchVars, fnVars, rowInput, visited, sizeChanged, saveVars, resultVars >>

\* updateFontSize: strategy fk has run, with outcome out. Then the next
\* strategy whose guard lets it run, or the final status check.
FontStrategy(out) ==
    /\ rpc = "font"
    /\ LET success == Accepts(out)
           rest == { k \in (fk + 1)..3 : RunsStrategy(k, success) }
       IN  /\ attempted' = Append(attempted, << fk, out >>)
           /\ updateMethods' = IF PushesName(out)
                               THEN Append(updateMethods, MethodName(fk))
                               ELSE updateMethods
           /\ sizeChanged' = IF out = "threw" THEN sizeChanged
                             ELSE sizeChanged \cup {CurLayer}
           /\ updateSuccess' = success
           /\ IF rest # {}
              THEN /\ fk' = CHOOSE k \in rest : \A m \in rest : k <= m
                   /\ UNCHANGED << rpc, li, updates, layerUpdates, errors >>
              ELSE /\ UNCHANGED fk
                   /\ IF success
                      THEN rpc' = "fontRelay" /\ UNCHANGED << li, updates, layerUpdates, errors >>
                      ELSE LayerThrows("font")
    /\ UNCHANGED << batchVars, fnVars, rowInput, visited, textChanged, relayEvent, saveVars, resultVars >>

\* updateFontSize: its relay write has settled. A failed write is caught by
\* the function's own catch and leaves it as FONT_SIZE_UPDATE_ERROR.
FontRelayDone(ok) ==
    /\ rpc = "fontRelay"
    /\ IF ok
       THEN /\ relayEvent' = updateMethods
            /\ LayerReturns([updates EXCEPT !.fontSize = TRUE])
       ELSE /\ UNCHANGED relayEvent
            /\ LayerThrows("relay")
    /\ UNCHANGED << batchVars, fnVars, rowInput, visited, textChanged, sizeChanged, fk, updateSuccess,
                    updateMethods, attempted, saveVars, resultVars >>

----------------------------------------------------------------------------
(* One row: saveAsPNG and the end of processTextRow                        *)

\* What a save method can come to: its command throws, or it returns and
\* the file it wrote is missing or too small (bad) or is there with a
\* reasonable size (good).
SaveOutcomes == {"threw", "bad", "good"}

\* Method 1 trusts its command; methods 2 and 3 check the file they wrote.
ChecksFile(k) == k # 1

\* Method 2 writes and checks a .jpg next to the destination; method 3
\* checks the destination file itself.
ChecksDestination(k) == k = 3

\* Where a save method leads: a throw leads into the nested catch, which
\* holds the next method (the diagnostic file after method 3); a passed
\* check, or no check at all, returns true; a failed check falls off the
\* end of the function, which then returns undefined.
MethodResult(k, out) ==
    CASE out = "threw" -> IF k < 3 THEN "next" ELSE "diag"
      [] out = "good" -> "true"
      [] out = "bad" -> IF ChecksFile(k) THEN "undefined" ELSE "true"

\* processTextRow after `await saveAsPNG(...)`: the call has returned, so
\* pngSaved and filesSaved.png are set, whatever it returned; the catch that
\* pushes a PNG_SAVE error runs only when the call throws, which it never does.
SaveEnds(res) ==
    /\ saveResult' = res
    /\ filesSaved' = TRUE
    /\ rpc' = "rowRelay"
    /\ UNCHANGED << errors, rowResult >>

\* saveAsPNG: createFile for the destination has settled; a throw goes to
\* the outer catch, which returns false.
CreateDone(ok) ==
    /\ rpc = "create"
    /\ IF ok
       THEN rpc' = "save" /\ UNCHANGED << saveResult, filesSaved, errors, rowResult >>
       ELSE SaveEnds("false")
    /\ UNCHANGED << batchVars, fnVars, rowInput, visited, li, updates, layerUpdates, textChanged,
                    sizeChanged, fontVars, saveTried, diagnostic, destVerified >>

\* saveAsPNG: the next save method has run, with outcome out.
SaveMethod(out) ==
    /\ rpc = "save"
    /\ LET k == Len(saveTried) + 1
           r == MethodResult(k, out)
       IN  /\ saveTried' = Append(saveTried, << k, out >>)
           /\ destVerified' = (ChecksDestination(k) /\ out = "good")
           /\ CASE r = "next" -> UNCHANGED << rpc, saveResult, filesSaved, errors, rowResult >>
                [] r = "diag" -> rpc' = "diag"
                                 /\ UNCHANGED << saveResult, filesSaved, errors, rowResult >>
                [] OTHER -> SaveEnds(r)
    /\ UNCHANGED << batchVars, fnVars, rowInput, visited, li, updates, layerUpdates, textChanged,
                    sizeChanged, fontVars, diagnostic >>

\* saveAsPNG: the diagnostic file, which lists the error of each of the
\* three methods, has been written (or the write threw); false either way.
DiagnosticDone(ok) ==
    /\ rpc = "diag"
    /\ diagnostic' = IF ok THEN {1, 2, 3} ELSE diagnostic
    /\ SaveEnds("false")
    /\ UNCHANGED << batchVars, fnVars, rowInput, visited, li, updates, layerUpdates, textChanged,
                    sizeChanged, fontVars, saveTried, destVerified >>

\* processTextRow: its relay write has settled (a failure is caught and
\* logged); the result is returned.
RowRelayDone(ok) ==
    /\ rpc = "rowRelay"
    /\ rpc' = "returned"
    /\ rowResult' = IF RowSuccess(layerUpdates) THEN "success" ELSE "failure"
    /\ UNCHANGED << batchVars, fnVars, rowInput, visited, layerVars, fontVars, saveVars, filesSaved >>

RowNext ==
    \/ RowEntry
    \/ LoopStep
    \/ LayerBegin
    \/ \E ok \in BOOLEAN : ReplaceTextDone(ok)
    \/ \E out \in FontOutcomes : FontStrategy(out)
    \/ \E ok \in BOOLEAN : FontRelayDone(ok)
    \/ \E ok \in BOOLEAN : CreateDone(ok)
    \/ \E out \in SaveOutcomes : SaveMethod(out)
    \/ \E ok \in BOOLEAN : DiagnosticDone(ok)
    \/ \E ok \in BOOLEAN : RowRelayDone(ok)

RowSpec == RowInit /\ [][RowNext]_vars

----------------------------------------------------------------------------
(* The file-system helpers: setupTextOutputFolders and writeToMCPRelay     *)

\* Largest number of calls of setupTextOutputFolders on the output folder.
MaxSetupCalls == 2

\* What the output folder can hold under the name Text_PNG.
EntryKinds == {"missing", "file", "folder"}

\* The helpers are called on an output folder in any of its conditions. An
\* entry that is there before the first call has identity 1; every entry
\* createEntry makes gets the next identity.
FsInit ==
    /\ BatchInit
    /\ RowIdle
    /\ fsPc = "idle"
    /\ pngEntry \in { [kind |-> k, id |-> IF k = "missing" THEN 0 ELSE 1] : k \in EntryKinds }
    /\ setupCalls = << >>
    /\ relay = RelayFresh
    /\ CsvIdle
    /\ TextIdle
    /\ NameIdle
    /\ RetryIdle

\* setupTextOutputFolders taking no entry it finds for the folder.
ReusesNothing(kind) == FALSE

\* setupTextOutputFolders: the entry getEntry returned is used when it is a
\* folder; no entry (getEntry throws) and an entry that is not a folder
\* (the function throws) both lead into the catch that creates the folder.
ReusesFolder(kind) == kind = "folder"

\* The call of setupTextOutputFolders in progress ends.
SetupEnds(res, id, why) ==
    /\ fsPc' = "idle"
    /\ setupCalls' = [setupCalls EXCEPT ![Len(setupCalls)] =
                          [@ EXCEPT !.result = res, !.entry = id, !.cause = why]]

\* setupTextOutputFolders is called with the output folder, up to its
\* `await outputFolder.getEntry('Text_PNG')`.
SetupFoldersCall ==
    /\ fsPc = "idle"
    /\ Len(setupCalls) < MaxSetupCalls
    /\ fsPc' = "getEntry"
    /\ setupCalls' = Append(setupCalls,
                            [began |-> pngEntry.kind, creates |-> 0, result |-> "running",
                             entry |-> 0, cause |-> "none"])
    /\ UNCHANGED << batchVars, rowVars, csvVars, textVars, nameVars, retryVars, pngEntry, relay >>

\* getEntry has settled: an existing folder passes both checks and is
\* returned; otherwise createEntry('Text_PNG', { type: 'folder' }) is called.
GetEntryDone ==
    /\ fsPc = "getEntry"
    /\ IF ReusesFolder(pngEntry.kind)
       THEN SetupEnds("returned", pngEntry.id, "none")
       ELSE /\ fsPc' = "createEntry"
            /\ setupCalls' = [setupCalls EXCEPT ![Len(setupCalls)].creates = @ + 1]
    /\ UNCHANGED << batchVars, rowVars, csvVars, textVars, nameVars, retryVars, pngEntry, relay >>

\* createEntry has settled: the new folder is returned, or the throw leaves
\* the function as FOLDER_SETUP_ERROR around FOLDER_CREATE_ERROR. Whether the
\* host makes the folder where an entry of that name exists is left open.
CreateEntryDone(ok) ==
    /\ fsPc = "createEntry"
    /\ IF ok
       THEN /\ pngEntry' = [kind |-> "folder", id |-> pngEntry.id + 1]
            /\ SetupEnds("returned", pngEntry.id + 1, "none")
       ELSE /\ UNCHANGED pngEntry
            /\ SetupEnds("thrown", 0, "FOLDER_CREATE_ERROR")
    /\ UNCHANGED << batchVars, rowVars, csvVars, textVars, nameVars, retryVars, relay >>

\* What writeToMCPRelay obtains, one after the other, before it writes.
PrepSteps == << "getTemporaryFolder", "mcp-relay", "logs", "stringify" >>

\* The checks of writeToMCPRelay ahead of its try block.
RelayPreconditions == {"ok", "INVALID_INPUT", "FORMAT_ERROR"}

\* writeToMCPRelay running the temporary-file path whatever the first write did.
RetriesAlways(ok) == TRUE

\* writeToMCPRelay: the temporary-file path is the catch of the first write.
RetriesAfter(ok) == ~ok

\* The call of writeToMCPRelay in progress ends.
RelayEnds(res, code) ==
    /\ fsPc' = "idle"
    /\ relay' = [relay EXCEPT !.result = res, !.code = code]

\* writeToMCPRelay is called: a missing argument or encoding is thrown as
\* it is, ahead of the try block.
RelayCall(pre) ==
    /\ fsPc = "idle"
    /\ IF pre = "ok"
       THEN fsPc' = "prep" /\ relay' = [RelayFresh EXCEPT !.result = "running"]
       ELSE fsPc' = "idle" /\ relay' = [RelayFresh EXCEPT !.result = "thrown", !.code = pre]
    /\ UNCHANGED << batchVars, rowVars, csvVars, textVars, nameVars, retryVars, pngEntry, setupCalls >>

\* The next thing the write needs has been obtained, or obtaining it threw:
\* the outer catch throws MCP_WRITE_ERROR around whatever was thrown.
RelayPrepStep(ok) ==
    /\ fsPc = "prep"
    /\ IF ok
       THEN /\ relay' = [relay EXCEPT !.prepared = @ + 1]
            /\ fsPc' = IF relay.prepared + 1 = Len(PrepSteps) THEN "primary" ELSE "prep"
       ELSE RelayEnds("thrown", "MCP_WRITE_ERROR")
    /\ UNCHANGED << batchVars, rowVars, csvVars, textVars, nameVars, retryVars, pngEntry, setupCalls >>

\* createFile in the logs folder and file.write have settled.
RelayPrimaryDone(ok) ==
    /\ fsPc = "primary"
    /\ IF RetriesAfter(ok)
       THEN /\ fsPc' = "fallback"
            /\ relay' = [relay EXCEPT !.primary = IF ok THEN "ok" ELSE "failed",
                                      !.fallbacks = @ + 1]
       ELSE /\ fsPc' = "idle"
            /\ relay' = [relay EXCEPT !.primary = "ok", !.result = "path"]
    /\ UNCHANGED << batchVars, rowVars, csvVars, textVars, nameVars, retryVars, pngEntry, setupCalls >>

\* createTemporaryFile, write and moveTo have settled: the moved file's
\* path is returned, or FILE_WRITE_ERROR is thrown into the outer catch.
RelayFallbackDone(ok) ==
    /\ fsPc = "fallback"
    /\ relay' = [relay EXCEPT !.fallback = IF ok THEN "ok" ELSE "failed",
                              !.result = IF ok THEN "path" ELSE "thrown",
                              !.code = IF ok THEN "none" ELSE "MCP_WRITE_ERROR"]
    /\ fsPc' = "idle"
    /\ UNCHANGED << batchVars, rowVars, csvVars, textVars, nameVars, retryVars, pngEntry, setupCalls >>

FsNext ==
    \/ SetupFoldersCall
    \/ GetEntryDone
    \/ \E ok \in BOOLEAN : CreateEntryDone(ok)
    \/ \E pre \in RelayPreconditions : RelayCall(pre)
    \/ \E ok \in BOOLEAN : RelayPrepStep(ok)
    \/ \E ok \in BOOLEAN : RelayPrimaryDone(ok)
    \/ \E ok \in BOOLEAN : RelayFallbackDone(ok)

FsSpec == FsInit /\ [][FsNext]_vars

----------------------------------------------------------------------------
(* loadTextCSV and the Load CSV handler around it                          *)

\* A field is the sequence of its characters, after trim(): "1" stands for a
\* digit, "p" for any character that is neither a digit nor part of a number.
Digits == {"1"}
Values == { << >>, << "1" >>, << "1", "p" >>, << "p" >> }

\* The header lines followed, as trimmed column names. Column names are
\* distinct within a header.
CsvHeaders ==
    { << "text1" >>, << "name" >>, << "text1", "fontsize1" >>, << "text1", "text2" >> }

\* The data lines followed: as many fields as some header has columns. The
\* line of one empty field is the blank line.
CsvLines == UNION { [1..Len(h) -> Values] : h \in CsvHeaders }

\* Sequences of at most n elements of S.
SeqUpTo(S, n) == UNION { [1..k -> S] : k \in 0..n }

\* Largest number of data lines of the file.
MaxLines == 3

\* A row of the data loaded before.
PrevRow == [h \in {"text1"} |-> << "p" >>]

\* The Load CSV handler has read some file, with nothing loaded before or
\* with a dataset loaded and the cursor at its first row or past its last.
CsvInit ==
    /\ BatchRestInit
    /\ stopShown = FALSE
    /\ RowIdle
    /\ FsIdle
    /\ TextIdle
    /\ NameIdle
    /\ RetryIdle
    /\ csvPc = "read"
    /\ csvFile \in [headers : CsvHeaders, lines : SeqUpTo(CsvLines, MaxLines)]
    /\ csvLen \in {0, MaxRows}
    /\ csvData = [i \in 1..csvLen |-> PrevRow]
    /\ totalRows = csvLen
    /\ processedRows \in {0, csvLen}
    /\ loadError = "none"

\* header.startsWith('text')
StartsWithText(h) == h \in {"text1", "text2"}

\* header.startsWith('fontsize')
StartsWithFontsize(h) == h \in {"fontsize1"}

\* headers.filter(h => h.startsWith('text'))
textColumns(headers) == SelectSeq(headers, StartsWithText)

\* isNaN(parseFloat(value)): parseFloat reads the number the front of the
\* value spells and ignores what follows it; there is no number when the
\* value does not begin with one.
ParseFloatIsNaN(value) == Len(value) = 0 \/ value[1] \notin Digits

\* loadTextCSV keeping every font size as it is written.
ClearsNothing(value) == FALSE

\* Whether the validation replaces a font size by '': it is non-empty and
\* parseFloat finds no number in it.
ClearsFontSize(value) == value # << >> /\ ParseFloatIsNaN(value)

\* if (!line) continue
IsBlank(values) == values = << << >> >>

\* if (values.length !== headers.length) continue
SkipsLine(headers, values) == Len(values) # Len(headers)

\* loadTextCSV counting any non-empty field as data.
hasDataAnyColumn(headers, values) == \E i \in DOMAIN headers : values[i] # << >>

\* hasData after the forEach over the headers: some column whose name starts
\* with 'text' has a non-empty value.
hasData(headers, values) ==
    \E i \in DOMAIN headers : StartsWithText(headers[i]) /\ values[i] # << >>

\* rowData after the forEach over the headers.
rowDataOf(headers, values) ==
    [h \in { headers[i] : i \in DOMAIN headers } |->
        LET value == values[CHOOSE i \in DOMAIN headers : headers[i] = h]
        IN  IF StartsWithFontsize(h) /\ ClearsFontSize(value) THEN << >> ELSE value]

\* loadTextCSV collecting the rows last line first.
PushFront(data, row) == << row >> \o data

\* data.push(rowData)
Push(data, row) == Append(data, row)

\* The loop over the data lines, from the lines left and the rows pushed.
RECURSIVE ParseLines(_, _, _)
ParseLines(headers, lines, data) ==
    IF lines = << >> THEN data
    ELSE LET values == Head(lines)
         IN  ParseLines(headers, Tail(lines),
                        IF IsBlank(values) \/ SkipsLine(headers, values)
                        THEN data
                        ELSE IF hasData(headers, values)
                        THEN Push(data, rowDataOf(headers, values))
                        ELSE data)

\* loadTextCSV accepting a header without text columns.
RejectsNoHeader(headers) == FALSE

\* if (textColumns.length === 0) throw INVALID_CSV_FORMAT
RejectsHeader(headers) == Len(textColumns(headers)) = 0

\* loadTextCSV accepting an empty dataset.
RejectsNoData(data) == FALSE

\* if (data.length === 0) throw EMPTY_CSV_DATA
RejectsData(data) == Len(data) = 0

\* loadTextCSV from file.read() to its relay write: the file is parsed and
\* validated, and the rows are installed only when both validations pass;
\* any throw leaves the function as CSV_LOAD_ERROR around the error thrown.
CsvParsed(readOk) ==
    /\ csvPc = "read"
    /\ LET headers == csvFile.headers
           data == ParseLines(headers, csvFile.lines, << >>)
           error == IF ~readOk THEN "READ_ERROR"
                    ELSE IF RejectsHeader(headers) THEN "INVALID_CSV_FORMAT"
                    ELSE IF RejectsData(data) THEN "EMPTY_CSV_DATA"
                    ELSE "none"
       IN  IF error # "none"
           THEN /\ csvPc' = "thrown"
                /\ loadError' = error
                /\ UNCHANGED << csvData, totalRows, csvLen >>
           ELSE /\ csvPc' = "relay"
                /\ csvData' = data
                /\ totalRows' = Len(data)
                /\ csvLen' = Len(data)
                /\ UNCHANGED loadError
    /\ UNCHANGED << batchRest, processedRows, rowVars, fsVars, textVars, nameVars, retryVars, csvFile >>

\* The relay write of loadTextCSV has settled: the rows are returned and the
\* click listener resets processedRows, or the write's error leaves the
\* function as CSV_LOAD_ERROR with the rows installed.
CsvRelayDone(ok) ==
    /\ csvPc = "relay"
    /\ csvPc' = IF ok THEN "returned" ELSE "thrown"
    /\ loadError' = IF ok THEN loadError ELSE "MCP_WRITE_ERROR"
    /\ processedRows' = IF ok THEN 0 ELSE processedRows
    /\ UNCHANGED << batchRest, csvLen, rowVars, fsVars, textVars, nameVars, retryVars, csvFile, csvData, totalRows >>

CsvNext ==
    \/ \E readOk \in BOOLEAN : CsvParsed(readOk)
    \/ \E ok \in BOOLEAN : CsvRelayDone(ok)

CsvSpec == CsvInit /\ [][CsvNext]_vars

----------------------------------------------------------------------------
(* replaceText                                                             *)

\* Largest length of the text handed to replaceText.
MaxText == 7

\* The characters of a text: those of the marker |br| and one other.
Chars == {"|", "b", "r", "x"}

\* The marker of a line break in a CSV value, and the character put for it.
Marker == << "|", "b", "r", "|" >>
LineBreak == "CR"

\* replaceText is called on some layer with some text.
TextInit ==
    /\ BatchInit
    /\ RowIdle
    /\ FsIdle
    /\ CsvIdle
    /\ NameIdle
    /\ RetryIdle
    /\ textPc = "call"
    /\ newText \in SeqUpTo(Chars, MaxText)
    /\ issued = << >>

\* newText.replace(/\|br\|/g, '\r'): the text is read from the left; where
\* the marker begins it is consumed whole and one line break is put out,
\* elsewhere the character is put out and the reading moves on by one.
RECURSIVE ReplaceBr(_)
ReplaceBr(text) ==
    IF Len(text) >= Len(Marker) /\ SubSeq(text, 1, Len(Marker)) = Marker
    THEN << LineBreak >> \o ReplaceBr(SubSeq(text, Len(Marker) + 1, Len(text)))
    ELSE IF text = << >> THEN << >>
    ELSE << Head(text) >> \o ReplaceBr(Tail(text))

\* replaceText handing the text on as it is.
rawText(text) == text

\* const processedText = newText.replace(/\|br\|/g, '\r')
processedText(text) == ReplaceBr(text)

\* A host command with its outcome.
Command(cmd, text) == [cmd |-> cmd, text |-> text, result |-> "pending"]

\* The last command issued has settled.
Settled(ok) == [issued EXCEPT ![Len(issued)].result = IF ok THEN "ok" ELSE "failed"]

\* replaceText up to its first command: a layer without name, or a modal
\* scope the host does not grant, ends the call as TEXT_REPLACE_ERROR;
\* otherwise the callback issues the select command.
ReplaceTextCall(named, modal) ==
    /\ textPc = "call"
    /\ IF named /\ modal
       THEN textPc' = "select" /\ issued' = Append(issued, Command("select", << >>))
       ELSE textPc' = "thrown" /\ UNCHANGED issued
    /\ UNCHANGED << batchVars, rowVars, fsVars, csvVars, nameVars, retryVars, newText >>

\* The select command has settled: the set command follows it in the same
\* callback, so a throw of the select leaves the callback before the set.
SelectDone(ok) ==
    /\ textPc = "select"
    /\ IF ok
       THEN /\ textPc' = "set"
            /\ issued' = Append(Settled(ok), Command("set", processedText(newText)))
       ELSE /\ textPc' = "thrown"
            /\ issued' = Settled(ok)
    /\ UNCHANGED << batchVars, rowVars, fsVars, csvVars, nameVars, retryVars, newText >>

\* The set command has settled: true is returned, or TEXT_REPLACE_ERROR thrown.
SetDone(ok) ==
    /\ textPc = "set"
    /\ textPc' = IF ok THEN "returned" ELSE "thrown"
    /\ issued' = Settled(ok)
    /\ UNCHANGED << batchVars, rowVars, fsVars, csvVars, nameVars, retryVars, newText >>

TextNext ==
    \/ \E named, modal \in BOOLEAN : ReplaceTextCall(named, modal)
    \/ \E ok \in BOOLEAN : SelectDone(ok)
    \/ \E ok \in BOOLEAN : SetDone(ok)

TextSpec == TextInit /\ [][TextNext]_vars

----------------------------------------------------------------------------
(* The output file of a row: processTextRow's file name and saveAsPNG's    *)
(* createFile                                                              *)

\* The rows of a batch, at most, that are followed to their export.
MaxBatch == 2

\* The characters /[a-zA-Z0-9]/ matches.
AlphaNumeric ==
    { "a", "b", "c", "d", "e", "f", "g", "h", "i", "j", "k", "l", "m",
      "n", "o", "p", "q", "r", "s", "t", "u", "v", "w", "x", "y", "z",
      "A", "B", "C", "D", "E", "F", "G", "H", "I", "J", "K", "L", "M",
      "N", "O", "P", "Q", "R", "S", "T", "U", "V", "W", "X", "Y", "Z",
      "0", "1", "2", "3", "4", "5", "6", "7", "8", "9" }

\* The values a row has in its columns text1 and text2, character by
\* character; the empty one stands for an empty or a missing value.
NameTexts ==
    { << >>, << "a" >>, << "Z", "7" >>, << "a", "-" >>, << "a", " " >>,
      << "a", "_" >>, << "a", "/" >> }

\* row.text1 || 'default'
text1Content(text1) ==
    IF text1 = << >> THEN << "d", "e", "f", "a", "u", "l", "t" >> ELSE text1

\* row.text2 || ''
text2Content(text2) == IF text2 = << >> THEN << >> ELSE text2

\* The replacement leaving every character as it is.
SanitizeNothing(str) == str

\* .replace(/[^a-zA-Z0-9]/g, '_')
Sanitize(str) ==
    [i \in 1..Len(str) |-> IF str[i] \in AlphaNumeric THEN str[i] ELSE "_"]

\* const baseFileName = `${text1Content}_${text2Content}`.replace(...)
baseFileName(text1, text2) ==
    Sanitize(text1Content(text1) \o << "_" >> \o text2Content(text2))

\* folders.pngNativePath, with '/' as its separator.
pngNativePath == << "o", "u", "t", "/", "T", "e", "x", "t", "_", "P", "N", "G" >>

\* const pngPath = `${pngNativePath}/${baseFileName}.png`
pngPath(base) == pngNativePath \o << "/" >> \o base \o << ".png" >>

\* saveAsPNG: outputPath.split('/').pop(), what follows the last '/'.
fileName(outputPath) ==
    LET slashes == { i \in DOMAIN outputPath : outputPath[i] = "/" }
        last == IF slashes = {} THEN 0
                ELSE CHOOSE i \in slashes : \A j \in slashes : j <= i
    IN  SubSeq(outputPath, last + 1, Len(outputPath))

\* textPngFolder.createFile(fileName, { overwrite: true }) for row k: the
\* folder holds one file of that name, the one created last.
createFile(files, name, k) ==
    { f \in files : f[1] # name } \cup { << name, k >> }

\* One batch begins on an empty Text_PNG folder.
NameInit ==
    /\ BatchInit
    /\ RowIdle
    /\ FsIdle
    /\ CsvIdle
    /\ TextIdle
    /\ RetryIdle
    /\ NameIdle

\* processTextRow reaches the save of a row with the given texts: it forms
\* the path and calls saveAsPNG, which awaits createFile.
NameRow(text1, text2) ==
    /\ naming.pc = "idle"
    /\ Len(naming.exports) < MaxBatch
    /\ naming' = [naming EXCEPT
                     !.pc = "create",
                     !.pending = [text1 |-> text1, text2 |-> text2,
                                  file |-> fileName(pngPath(baseFileName(text1, text2)))]]
    /\ UNCHANGED << batchVars, rowVars, fsVars, csvVars, textVars, retryVars >>

\* createFile has settled: with the file, which the save methods then
\* write, or with an error, which fails the save of the row.
CreateFileDone(ok) ==
    /\ naming.pc = "create"
    /\ naming' = [naming EXCEPT
                     !.pc = "idle",
                     !.pending = << >>,
                     !.exports = IF ok THEN Append(@, naming.pending) ELSE @,
                     !.pngFiles = IF ok
                                  THEN createFile(@, naming.pending.file,
                                                  Len(naming.exports) + 1)
                                  ELSE @]
    /\ UNCHANGED << batchVars, rowVars, fsVars, csvVars, textVars, retryVars >>

NameNext ==
    \/ \E text1, text2 \in NameTexts : NameRow(text1, text2)
    \/ \E ok \in BOOLEAN : CreateFileDone(ok)

NameSpec == NameInit /\ [][NameNext]_vars

----------------------------------------------------------------------------
(* executeWithRetry                                                        *)

\* The largest maxRetries a call is followed with.
MaxRetries == 3

\* What batchPlay can come to: it returns a result or throws an error.
RetryResults == {"r1", "r2"}
RetryErrors == {"e1", "e2", "e3"}

\* executeWithRetry is called with some maxRetries.
RetryInit ==
    /\ BatchInit
    /\ RowIdle
    /\ FsIdle
    /\ CsvIdle
    /\ TextIdle
    /\ NameIdle
    /\ \E n \in 0..MaxRetries :
          retry = [pc |-> "entry", maxRetries |-> n, i |-> 0, lastError |-> "undefined",
                   tried |-> << >>, waited |-> << >>, out |-> "none"]

\* The catch block waiting after every failed attempt.
WaitsAlways(i, n) == TRUE

\* if (i < maxRetries - 1)
WaitsAfter(i, n) == i < n - 1

\* 100 * Math.pow(2, i)
Backoff(i) == 100 * 2^i

\* The loop condition with i, then batchPlay or, after the loop, throw
\* lastError: the call in state r goes on with i.
RetryLoop(r, i) ==
    IF i < r.maxRetries
    THEN [r EXCEPT !.i = i, !.pc = "call"]
    ELSE [r EXCEPT !.i = i, !.pc = "thrown", !.out = r.lastError]

\* The call, up to the first batchPlay.
RetryEntry ==
    /\ retry.pc = "entry"
    /\ retry' = RetryLoop(retry, 0)
    /\ UNCHANGED << batchVars, rowVars, fsVars, csvVars, textVars, nameVars >>

\* batchPlay has settled: its result is returned, or its error is kept in
\* lastError and the next attempt follows, after a wait or at once.
BatchPlayDone(out) ==
    /\ retry.pc = "call"
    /\ LET r == [retry EXCEPT !.tried = Append(@, out)]
       IN  retry' =
              IF out \in RetryResults
              THEN [r EXCEPT !.pc = "returned", !.out = out]
              ELSE IF WaitsAfter(r.i, r.maxRetries)
              THEN [r EXCEPT !.lastError = out, !.pc = "wait",
                             !.waited = Append(@, << r.i, Backoff(r.i) >>)]
              ELSE RetryLoop([r EXCEPT !.lastError = out], r.i + 1)
    /\ UNCHANGED << batchVars, rowVars, fsVars, csvVars, textVars, nameVars >>

\* The wait is over: i++ and the loop condition.
RetryWaitDone ==
    /\ retry.pc = "wait"
    /\ retry' = RetryLoop(retry, retry.i + 1)
    /\ UNCHANGED << batchVars, rowVars, fsVars, csvVars, textVars, nameVars >>

RetryNext ==
    \/ RetryEntry
    \/ \E out \in RetryResults \cup RetryErrors : BatchPlayDone(out)
    \/ RetryWaitDone

RetrySpec == RetryInit /\ [][RetryNext]_vars

----------------------------------------------------------------------------
(* Properties                                                              *)

\* Invocation p hands a row to processTextRow in this step.
BeganRow(p) == pc'[p] = "inRow" /\ (pc[p] # "inRow" \/ idx'[p] # idx[p])

\* C1: a run that saw the stop flag at the top of iteration i ends with
\* processedRows = i, and processedRows is still i when the next run is
\* started, so that the next all-rows run begins with row i. (A reload or a
\* restart in between voids the obligation: stoppedAt and resumeAt forget it.)
C1_StopLeavesCursorAtRow ==
    /\ \A p \in Procs : (pc[p] = "relay" /\ stoppedAt[p] # NoRow) => processedRows = stoppedAt[p]
    /\ resumeAt # NoRow => processedRows = resumeAt

\* C2: once requestStopProcessing has run while an all-rows run was in its
\* folder setup or in a row, that run hands no further row to processTextRow.
C2_NoRowAfterStop ==
    [][\A p \in Procs : (mode[p] = "all" /\ stopReq[p]) => ~BeganRow(p)]_vars

\* C3: while one invocation is suspended in its folder setup or in a row, no
\* other invocation of processTextReplacement takes a step (each of its steps
\* processes a row or writes processedRows, the stop flag or isProcessing),
\* and runSingleSaveTest does not start on the document.
C3_OneRunAtATime ==
    [][\A p \in Procs : pc[p] \in {"setup", "inRow"} =>
          /\ \A q \in Procs \ {p} : ~RunStep(q)
          /\ ~(testPc' # testPc /\ testPc' \in {"row", "save"})]_vars

\* C4: an all-rows run whose folder setup succeeded never ends in the step in
\* which it hands over or gets back a row: an error of row i leaves the run
\* going, on to row i+1 or to the summary after the last row.
C4_RowErrorKeepsRunGoing ==
    [][\A p \in Procs :
          (mode[p] = "all" /\ (pc[p] = "inRow" \/ \E d \in DocKinds : SetupDone(p, TRUE, d)))
              => pc'[p] # "idle"]_vars

\* C5: no row is handed to processTextRow between the replacement of csvData
\* and the moment processedRows is 0.
C5_NewDataStartsAtZero ==
    [][\A p \in Procs : BeganRow(p) => ~cursorStale]_vars

\* C6: processedRows never decreases, except to 0 at the restart click and at
\* the reset that follows a CSV load.
C6_CursorMonotonic ==
    [][processedRows' < processedRows =>
          (processedRows' = 0 /\ (RestartClick \/ LoadRelayDone(TRUE)))]_vars

\* C7: a single-row run hands at most one row to processTextRow, straight
\* after its folder setup, and that row is the one at index processedRows;
\* when the row returns processedRows becomes that index plus one; when
\* processedRows is not below the number of rows the run hands over no row
\* and does not write processedRows.
C7_SingleRowMode ==
    [][\A p \in Procs : mode[p] = "current" =>
          /\ BeganRow(p) => (pc[p] = "setup" /\ idx'[p] = processedRows
                             /\ processedRows < csvLen)
          /\ (pc[p] = "inRow" /\ pc'[p] # "inRow") =>
                (pc'[p] = "relay" /\ processedRows' = idx[p] + 1)
          /\ (pc[p] = "setup" /\ pc'[p] # "setup" /\ processedRows >= csvLen) =>
                (~BeganRow(p) /\ processedRows' = processedRows)]_vars

\* C7 witness: a single-row run has got its row back and advanced the counter.
C7_Witness ==
    \E p \in Procs : pc[p] = "relay" /\ textStatus = "processed" /\ processedRows = 1

\* C8: a run leaves its click with the stop flag reset, and a run halts at the
\* stop check only on a stop request made after it started.
C8_StopResetAtStart ==
    [][\A p \in Procs :
          /\ (pc[p] = "idle" /\ pc'[p] = "setup") => ~stopProcessingRequested'
          /\ (pc[p] \in {"setup", "inRow"} /\ stoppedAt'[p] # NoRow) => stopReq[p]]_vars

\* C8 witness: a run started while the stop flag was still set is processing a row.
C8_Witness ==
    \E p \in Procs : pc[p] = "inRow" /\ startedWithStop[p] /\ ~stopReq[p]

\* C9: once the Restart handler has run, processedRows is 0, and it stays 0
\* until the next run is started, which therefore begins at row 0.
C9_RestartResetsCursor == restarted => processedRows = 0

\* A step of invocation p in which its setup phase fails: the validation at
\* the click throws, or setupTextOutputFolders settles with an error.
SetupFails(p) ==
    \/ /\ pc[p] = "idle"
       /\ \E type \in {"current", "all"}, d \in DocKinds : SetupError(d) /\ StartRun(p, type, d)
    \/ /\ pc[p] = "setup"
       /\ \E d \in DocKinds : SetupDone(p, FALSE, d)

\* C10: a setup-phase failure ends the run on the spot: no row is handed to
\* processTextRow (so no layer is mutated and no file exported) and
\* processedRows is not written.
C10_SetupFailureAborts ==
    [][\A p \in Procs :
          \/ (pc'[p] = "idle" /\ ~BeganRow(p) /\ processedRows' = processedRows)
          \/ ~SetupFails(p)]_vars

\* C10 witness: with no CSV loaded a click on Process has ended in the error
\* status, and processedRows and isProcessing are as before.
C10_Witness ==
    csvLen = 0 /\ textStatus = "error" /\ processedRows = 0 /\ ~isProcessing

\* C11: a relay write that fails changes no outcome: no layer is in the
\* error list of the row because of a relay failure, so a font-size update
\* whose strategy was accepted still counts as done.
C11_RelayFailureHarmless ==
    \A e \in errors : e[3] # "relay"

\* C12: updateFontSize tries its strategies in the order 1 (direct write),
\* 2 (command by layer id), 3 (command by property path), none skipped; a
\* strategy is tried only when no earlier one was accepted, so nothing is
\* tried after an accepted strategy.
C12_StrategyOrder ==
    /\ \A i \in DOMAIN attempted : attempted[i][1] = i
    /\ \A i \in DOMAIN attempted : i < Len(attempted) => ~Accepts(attempted[i][2])
    /\ updateSuccess => (attempted # << >> /\ Accepts(attempted[Len(attempted)][2]))

\* C12 witness: the direct write threw, the command by layer id was
\* accepted, and the function went on to its relay write without trying the
\* third strategy.
C12_Witness ==
    rpc = "fontRelay" /\ Len(attempted) = 2 /\ updateSuccess

\* C13: the strategy that set updateSuccess is one after which the size
\* read back from the layer equals the requested size.
C13_AcceptedOnlyIfReadBackMatches ==
    updateSuccess => (attempted # << >> /\ attempted[Len(attempted)][2] = "match")

\* The names in a list of strategy names.
NamesIn(list) == { list[i] : i \in DOMAIN list }

\* The names of the strategies tried so far.
AttemptedNames == { MethodName(attempted[i][1]) : i \in DOMAIN attempted }

\* C14: the names updateFontSize reports name every strategy it tried: the
\* methodsUsed of its relay event do, and when all three strategies failed
\* the list joined into the error message does.
C14_AllAttemptedNamed ==
    /\ relayEvent # << >> => AttemptedNames \subseteq NamesIn(relayEvent)
    /\ (Len(attempted) = 3 /\ ~updateSuccess) => AttemptedNames \subseteq NamesIn(updateMethods)

\* saveAsPNG has returned to processTextRow.
SaveEnded == saveResult # "none"

\* The save methods tried so far.
MethodsTried == { saveTried[i][1] : i \in DOMAIN saveTried }

\* C15: the save methods are tried in the order 1, 2, 3; none is tried
\* after one that succeeded; and when saveAsPNG ends without a success the
\* diagnostic it leaves lists the error of every method it tried.
C15_SaveFallbackOrder ==
    /\ \A i \in DOMAIN saveTried : saveTried[i][1] = i
    /\ \A i \in DOMAIN saveTried :
          i < Len(saveTried) => MethodResult(i, saveTried[i][2]) # "true"
    /\ (SaveEnded /\ saveResult # "true" /\ saveTried # << >>) =>
          MethodsTried \subseteq diagnostic

\* C16: saveAsPNG ends with true or false; when a method fails, by throwing
\* or by leaving no good file, the next method is tried; and false is
\* returned only after all three methods were tried.
C16_FailureOnlyAfterAllMethods ==
    SaveEnded =>
        /\ saveResult \in {"true", "false"}
        /\ \A i \in DOMAIN saveTried :
              (saveTried[i][2] # "good" /\ i < 3) => i + 1 \in DOMAIN saveTried
        /\ (saveResult = "false" /\ saveTried # << >>) => Len(saveTried) = 3

\* C17: saveAsPNG returns true only when the destination file passed the
\* exists/size check after the save command.
C17_SuccessMeansVerifiedFile ==
    saveResult = "true" => destVerified

\* C18: filesSaved.png is true only when saveAsPNG returned true; when the
\* export came to anything else it is false and the error list of the row
\* holds a PNG_SAVE entry.
C18_PngFlagMeansExported ==
    /\ filesSaved => saveResult = "true"
    /\ (SaveEnded /\ saveResult # "true") =>
          (~filesSaved /\ \E e \in errors : e[1] = "PNG_SAVE")

\* processTextRow has called saveAsPNG.
ExportAttempted == rpc \in {"create", "save", "diag"} \/ SaveEnded

\* C19: processTextRow calls saveAsPNG only when the processing of at least
\* one layer succeeded, and a layer counts as processed only after a host
\* command has changed it; a row that has returned has called saveAsPNG
\* exactly when some layer was processed; and when no layer was processed
\* (every layer failed or none had data) no file was created and the
\* result has success == false.
C19_ExportIffLayerProcessed ==
    /\ ExportAttempted => layerUpdates # {}
    /\ layerUpdates \subseteq (textChanged \cup sizeChanged)
    /\ rpc = "returned" => (ExportAttempted <=> layerUpdates # {})
    /\ (rpc = "returned" /\ layerUpdates = {}) =>
          (rowResult = "failure" /\ ~ExportAttempted /\ saveTried = << >> /\ ~filesSaved)

\* C19 witness: the row has returned after every layer it had data for
\* failed: nothing was saved.
C19_Witness ==
    rpc = "returned" /\ layerUpdates = {} /\ errors # {} /\ rowResult = "failure"

\* C20: a layer's text is written only if the row has a non-empty text for
\* its index, and its font size only if the row has a non-empty font size
\* for it; so only layers of the document the row has data for are touched.
C20_OnlyLayersWithData ==
    /\ textChanged \subseteq { n \in 1..MaxLayers : rowText[n] }
    /\ sizeChanged \subseteq { n \in 1..MaxLayers : rowFont[n] }
    /\ \A n \in textChanged \cup sizeChanged :
          HasData(n) /\ \E i \in DOMAIN textLayers : textLayers[i] = n

\* C20 witness: the row has returned; it had a text and no font size for one
\* layer, whose text was written and whose size was not, and no data for
\* another layer of the document, which was left alone.
C20_Witness ==
    /\ rpc = "returned"
    /\ \E i, j \in DOMAIN textLayers :
          /\ textLayers[i] \in textChanged /\ textLayers[i] \notin sizeChanged
          /\ ~HasData(textLayers[j])
          /\ textLayers[j] \notin textChanged \cup sizeChanged

\* The layers the row has data for, in layer order.
DataLayers == SelectSeq(textLayers, HasData)

\* The layers whose processLayer call left an entry in the error list.
FailedLayers == { e[2] : e \in { x \in errors : x[1] = "LAYER" } }

\* C21: within one row a layer's failure is recorded in the row's error list
\* and the loop goes on: the layers handed to processLayer are always a
\* prefix of the layers the row has data for, each of them once and in layer
\* order, and all of them once the row has returned; every call that has
\* ended left the layer among the processed layers or in the error list, and
\* the error list names attempted layers only; the row is left by a throw
\* only before the first layer.
C21_EveryLayerAttemptedOnce ==
    /\ Len(visited) <= Len(DataLayers)
    /\ visited = SubSeq(DataLayers, 1, Len(visited))
    /\ rpc = "returned" => visited = DataLayers
    /\ rpc = "thrown" => visited = << >> /\ errors = {}
    /\ \A i \in 1..Len(visited) :
          (i < Len(visited) \/ rpc \in {"loop", "create", "save", "diag", "rowRelay", "returned"})
              => (visited[i] \in layerUpdates) # (visited[i] \in FailedLayers)
    /\ FailedLayers \subseteq { visited[i] : i \in 1..Len(visited) }

\* A row of two layers has returned: the first layer failed, the second was
\* processed all the same.
C21_Witness ==
    /\ rpc = "returned"
    /\ Len(visited) = 2
    /\ visited[1] \in FailedLayers
    /\ visited[2] \in layerUpdates

\* The parts of the relay contract that do not depend on why a call threw:
\* the temporary-file path runs at most once and only after the first write
\* failed, it does run once the first write failed, and a call returns a
\* path exactly when one of the two writes succeeded.
RelayAttempts ==
    /\ relay.fallbacks <= 1
    /\ relay.fallbacks = 1 <=> relay.primary = "failed"
    /\ relay.fallback # "none" => relay.fallbacks = 1
    /\ relay.result = "path" <=> (relay.primary = "ok" \/ relay.fallback = "ok")
    /\ relay.primary = "failed" /\ relay.fallback = "failed" => relay.result = "thrown"

\* Both writes of the call failed.
BothWritesFailed == relay.primary = "failed" /\ relay.fallback = "failed"

\* C22 as stated: writeToMCPRelay runs the temporary-file path exactly once
\* after a failed first write and never after a successful one, returns a
\* path if either write succeeds, and throws its wrapped error only when
\* both writes failed.
C22_WrappedErrorOnlyAfterBothWrites ==
    /\ RelayAttempts
    /\ relay.code = "MCP_WRITE_ERROR" => BothWritesFailed

\* C22, amended: as above, except that the wrapped error is thrown when both
\* writes failed or when the preparation ahead of the first write (the
\* temporary folder, the mcp-relay and logs folders, the serialisation)
\* failed, in which case no write was attempted.
C22_WrappedErrorAfterWritesOrPreparation ==
    /\ RelayAttempts
    /\ relay.code = "MCP_WRITE_ERROR"
           => \/ BothWritesFailed
              \/ /\ relay.prepared < Len(PrepSteps)
                 /\ relay.primary = "none"
                 /\ relay.fallbacks = 0

\* The first write failed, the temporary-file path ran and gave the path.
C22_Witness ==
    /\ relay.primary = "failed"
    /\ relay.fallbacks = 1
    /\ relay.fallback = "ok"
    /\ relay.result = "path"

\* C23: setupTextOutputFolders is idempotent on one output folder: once a
\* call has returned, every later call returns the same Text_PNG entry and
\* calls createEntry not at all; a call calls createEntry at most once, and
\* not at all when the folder was there already.
C23_SetupIdempotent ==
    /\ \A i \in DOMAIN setupCalls :
          /\ setupCalls[i].creates <= 1
          /\ setupCalls[i].began = "folder" => setupCalls[i].creates = 0
    /\ \A i, j \in DOMAIN setupCalls :
          i < j /\ setupCalls[i].result = "returned"
              => /\ setupCalls[j].creates = 0
                 /\ setupCalls[j].result # "thrown"
                 /\ setupCalls[j].result = "returned"
                        => setupCalls[j].entry = setupCalls[i].entry

\* Two calls on a folder without Text_PNG have returned: the first made the
\* folder, the second returned the same entry.
C23_Witness ==
    /\ Len(setupCalls) = 2
    /\ setupCalls[1].began = "missing"
    /\ setupCalls[1].creates = 1
    /\ setupCalls[1].result = "returned"
    /\ setupCalls[2].result = "returned"
    /\ setupCalls[2].entry = setupCalls[1].entry

\* C24: a call of setupTextOutputFolders that finds Text_PNG as something
\* other than a folder does not call createEntry and fails with the conflict
\* as its cause.
C24_ConflictFailsWithoutCreate ==
    \A i \in DOMAIN setupCalls :
        setupCalls[i].began = "file"
            => /\ setupCalls[i].creates = 0
               /\ setupCalls[i].result # "returned"
               /\ setupCalls[i].result = "thrown" => setupCalls[i].cause = "LAYOUT_CONFLICT"

\* The rows of the file are installed: loadTextCSV passed both validations.
Installed == csvPc \in {"relay", "returned"} \/ loadError = "MCP_WRITE_ERROR"

\* The line has as many fields as the header has columns.
WellFormed(headers, values) == Len(values) = Len(headers)

\* Some text column of the line is non-empty.
TextGiven(headers, values) ==
    \E i \in 1..Len(headers) :
        i <= Len(values) /\ headers[i] \in {"text1", "text2"} /\ values[i] # << >>

\* The lines of the file that are to be kept, in file order.
Survivors ==
    LET Keeps(values) == WellFormed(csvFile.headers, values)
                         /\ TextGiven(csvFile.headers, values)
    IN  SelectSeq(csvFile.lines, Keeps)

\* The header of the file has no text column.
NoTextColumn == \A i \in DOMAIN csvFile.headers : csvFile.headers[i] \notin {"text1", "text2"}

\* loadTextCSV ends in this step, having read the file.
LoadEnds == csvPc = "read" /\ csvPc' # "read" /\ loadError' # "READ_ERROR"

\* C25: a file whose header has no column starting with the text prefix
\* makes loadTextCSV throw with INVALID_CSV_FORMAT as the cause; no rows are
\* returned, and csvData, its length, totalRows and processedRows stay as
\* they were.
C25_NoTextColumnRejected ==
    [][LoadEnds /\ NoTextColumn
          => /\ csvPc' = "thrown"
             /\ loadError' = "INVALID_CSV_FORMAT"
             /\ UNCHANGED << csvData, csvLen, totalRows, processedRows >>]_vars

\* A file without text column was rejected while a dataset was loaded and
\* its rows were processed.
C25_Witness ==
    /\ csvPc = "thrown"
    /\ loadError = "INVALID_CSV_FORMAT"
    /\ NoTextColumn
    /\ Len(csvData) > 0
    /\ processedRows > 0

\* C26: the lines whose field count differs from the header's are left
\* out: the installed rows are the rows of the remaining kept lines, in file
\* order, each with the values of its own line, the same rows as the file
\* without the left-out lines gives.
C26_MalformedLinesSkipped ==
    Installed
        => LET headers == csvFile.headers
               Counts(values) == WellFormed(headers, values)
               clean == SelectSeq(csvFile.lines, Counts)
           IN  /\ Len(csvData) = Len(Survivors)
               /\ \A k \in 1..Len(Survivors) : \A i \in DOMAIN headers :
                     headers[i] # "fontsize1" => csvData[k][headers[i]] = Survivors[k][i]
               /\ csvData = ParseLines(headers, clean, << >>)

\* A line with the wrong field count stood between two kept lines with
\* different texts.
C26_Witness ==
    /\ Installed
    /\ csvFile.headers = << "text1" >>
    /\ csvFile.lines = << << << "p" >> >>, << << "1" >>, << "p" >> >>, << << "1" >> >> >>
    /\ csvData[1]["text1"] = << "p" >>
    /\ csvData[2]["text1"] = << "1" >>

\* C27: a line with the header's field count is kept exactly when one of
\* its text columns is non-empty: there are as many installed rows as such
\* lines, so a line with empty text columns is dropped whatever its font
\* size; a file of one text column and two data lines, the second empty,
\* gives one row.
C27_RetainedIffTextGiven ==
    Installed
        => LET headers == csvFile.headers
               lines == csvFile.lines
           IN  /\ Len(csvData) = Cardinality({ i \in DOMAIN lines :
                                        /\ WellFormed(headers, lines[i])
                                        /\ TextGiven(headers, lines[i]) })
               /\ (Len(headers) = 1 /\ Len(lines) = 2 /\ lines[1][1] # << >>
                      /\ lines[2] = << << >> >>) => Len(csvData) = 1

\* A line that had a font size and no text was dropped, the other line kept.
C27_Witness ==
    /\ Installed
    /\ csvFile.headers = << "text1", "fontsize1" >>
    /\ csvFile.lines = << << << "p" >>, << >> >>, << << >>, << "1" >> >> >>
    /\ Len(csvData) = 1

\* The value is a number: digits and nothing else.
IsNumber(value) == value # << >> /\ \A i \in DOMAIN value : value[i] \in {"1"}

\* The value begins with a number, whatever follows it.
LeadsWithNumber(value) == value # << >> /\ value[1] \in {"1"}

\* The installed rows are the kept lines, with the field of every font-size
\* column whose value is in cleared replaced by the empty string.
FontSizesCleared(cleared) ==
    /\ Len(csvData) = Len(Survivors)
    /\ \A k \in 1..Len(Survivors) : \A i \in DOMAIN csvFile.headers :
          csvData[k][csvFile.headers[i]] =
              IF csvFile.headers[i] = "fontsize1" /\ Survivors[k][i] \in cleared
              THEN << >> ELSE Survivors[k][i]

\* C28 as stated: in every kept row a font-size field that is not a number
\* is replaced by the empty string, and every other field is as in the file.
C28_NonNumericFontSizeCleared ==
    Installed => FontSizesCleared({ value \in Values : ~IsNumber(value) })

\* C28, amended: in every kept row a font-size field that does not begin
\* with a number is replaced by the empty string; a font-size field that
\* begins with a number is kept as written, whatever follows the number;
\* every other field is as in the file, and the row is kept whenever one of
\* its text fields is non-empty.
C28_UnparsableFontSizeCleared ==
    Installed => FontSizesCleared({ value \in Values : ~LeadsWithNumber(value) })

\* A row with a text and a font size without a number was kept, its font
\* size cleared.
C28_Witness ==
    /\ Installed
    /\ csvFile.headers = << "text1", "fontsize1" >>
    /\ csvFile.lines = << << << "1", "p" >>, << "p" >> >> >>
    /\ csvData = << [h \in {"text1", "fontsize1"} |->
                        IF h = "text1" THEN << "1", "p" >> ELSE << >>] >>

\* C29: a file with a text column of which no line is kept makes loadTextCSV
\* throw with EMPTY_CSV_DATA as the cause; csvData, its length, totalRows
\* and processedRows stay as they were.
C29_EmptyDatasetRejected ==
    [][LoadEnds /\ ~NoTextColumn /\ Survivors = << >>
          => /\ csvPc' = "thrown"
             /\ loadError' = "EMPTY_CSV_DATA"
             /\ UNCHANGED << csvData, csvLen, totalRows, processedRows >>]_vars

\* A file whose only lines had no text or the wrong field count was
\* rejected while a dataset was loaded and its rows were processed.
C29_Witness ==
    /\ csvPc = "thrown"
    /\ loadError = "EMPTY_CSV_DATA"
    /\ Len(csvFile.lines) = 2
    /\ Len(csvData) > 0
    /\ totalRows = Len(csvData)
    /\ processedRows > 0

\* The text with every line break written out as the marker again.
RECURSIVE WithMarkers(_)
WithMarkers(text) ==
    IF text = << >> THEN << >>
    ELSE (IF Head(text) = LineBreak THEN Marker ELSE << Head(text) >>)
             \o WithMarkers(Tail(text))

\* The marker occurs in the text.
HasMarker(text) ==
    \E i \in 1..Len(text) :
        i + 3 <= Len(text) /\ SubSeq(text, i, i + 3) = << "|", "b", "r", "|" >>

\* The line breaks of the text.
Breaks(text) == { i \in DOMAIN text : text[i] = LineBreak }

\* C30: replaceText issues the select command first and the set command
\* only after the select has succeeded; the text of the set command is the
\* given text with every marker replaced by one line break and every other
\* character left as it is: no marker is left in it, writing the marker for
\* each of its line breaks gives the given text back, and it is shorter by
\* three characters for each line break.
C30_SelectThenSetWithLineBreaks ==
    /\ Len(issued) <= 2
    /\ Len(issued) >= 1 => issued[1].cmd = "select"
    /\ Len(issued) = 2
           => /\ issued[1].result = "ok"
              /\ issued[2].cmd = "set"
              /\ ~HasMarker(issued[2].text)
              /\ WithMarkers(issued[2].text) = newText
              /\ Len(issued[2].text) + 3 * Cardinality(Breaks(issued[2].text)) = Len(newText)
    /\ textPc = "returned" => Len(issued) = 2 /\ issued[2].result = "ok"

\* A text with a marker between two characters was set with one line break
\* in the marker's place.
C30_Witness ==
    /\ textPc = "returned"
    /\ newText = << "x", "|", "b", "r", "|", "x" >>
    /\ issued[2].text = << "x", "CR", "x" >>

\* Invocation p ends in this step, and no other invocation is in flight.
RunEndsAlone(p) ==
    /\ pc[p] # "idle"
    /\ pc'[p] = "idle"
    /\ \A q \in Procs \ {p} : pc[q] = "idle"

\* C31: when a run ends, by completing the rows, by a stop or by an error,
\* the status message is not an in-progress text: neither 'Processing row
\* ...' (or another progress text) nor 'Stopping...'.
C31_NoProgressTextAtEnd ==
    [][\A p \in Procs :
          RunEndsAlone(p) => textStatus' \notin {"progress", "stopping"}]_vars

\* C32: if every host call settles, every started run ends, with
\* isProcessing and the stop flag false as it ends; its rows are the one at
\* the cursor it found and then one index up per iteration, each below the
\* number of rows, so at most (rows - starting cursor) rows are processed.
C32_RunTerminates ==
    /\ \A p \in Procs : (pc[p] # "idle") ~> (pc[p] = "idle")
    /\ [][\A p \in Procs :
             /\ pc[p] # "idle" /\ pc'[p] = "idle"
                   => ~isProcessing' /\ ~stopProcessingRequested'
             /\ BeganRow(p)
                   => /\ idx'[p] < csvLen
                      /\ pc[p] = "setup" => idx'[p] = processedRows
                      /\ pc[p] = "inRow" => idx'[p] = idx[p] + 1]_vars

\* A run over two rows has processed both and ended.
C32_Witness ==
    /\ \A p \in Procs : pc[p] = "idle"
    /\ csvLen = 2
    /\ processedRows = 2
    /\ textStatus = "all"
    /\ ~isProcessing
    /\ ~stopProcessingRequested

\* This step belongs to Load CSV or to Restart.
ReloadOrRestart ==
    csvLen' # csvLen \/ loadPc' # loadPc \/ restartPc' # restartPc

\* C33: an all-rows run that meets no stop and no row error takes the rows
\* from the cursor it found upwards, one index at a time, and leaves its
\* loop with processedRows equal to the number of rows; from then on, until
\* a reload or a restart, the cursor stays there and no run begins a row.
C33_AllRowsRunReachesEnd ==
    [][/\ \A p \in Procs :
             /\ mode[p] = "all" /\ pc[p] \in {"setup", "inRow"}
                   /\ pc'[p] = "relay" /\ textStatus' = "all"
                   => processedRows' = csvLen
             /\ mode[p] = "all" /\ BeganRow(p)
                   => idx'[p] = IF pc[p] = "setup" THEN processedRows ELSE idx[p] + 1
       /\ csvLen > 0 /\ processedRows = csvLen /\ ~ReloadOrRestart
             => /\ processedRows' = csvLen
                /\ \A p \in Procs : pc[p] = "setup" => pc'[p] # "inRow"]_vars

\* C34: whenever a CSV is loaded, processedRows lies between 0 and the
\* number of rows of the loaded data.
C34_CursorWithinData ==
    csvLen > 0 => processedRows \in 0..csvLen

\* C35: isProcessing is true while an invocation of processTextReplacement
\* has a row in processing, and false while no invocation is in flight
\* (every way out of an invocation has reset it).
C35_IsProcessingTracksRun ==
    /\ (\E p \in Procs : pc[p] = "inRow") => isProcessing
    /\ (\A p \in Procs : pc[p] = "idle") => ~isProcessing

\* The index of the row invocation p hands to processTextRow next: the
\* cursor it reads after its folder setup, the loop variable after i++.
RowTried(p) == IF pc[p] = "setup" THEN StartIndex ELSE idx[p] + 1

\* Invocation p hands row RowTried(p) to processTextRow in this step, after
\* its folder setup (either mode) or after the row before (all rows), and
\* processTextRow throws.
RowThrows(p) ==
    /\ pc[p] \in {"setup", "inRow"}
    /\ pc'[p] = "idle"
    /\ LoopTop(mode[p], RowTried(p)) = "row"
    /\ \E d \in DocKinds :
          /\ RowEntryThrows(d)
          /\ \/ SetupDone(p, TRUE, d)
             \/ mode[p] = "all" /\ RowReturn(p, d)

\* C36: when row i throws out of processTextRow, in either mode, the run
\* ends in the error status with processedRows equal to i, an index of the
\* loaded data: the rows before i stay counted, row i is not counted, and
\* the next run begins at row i.
C36_ThrowLeavesCursorAtRow ==
    [][\A p \in Procs :
          RowThrows(p)
             => /\ processedRows' = RowTried(p)
                /\ StartIndex' = RowTried(p)
                /\ RowTried(p) < csvLen'
                /\ textStatus' \in {"error", "noTextLayers"}]_vars

\* Row 1 of two has thrown NO_TEXT_LAYERS: the run has ended, row 0 is
\* counted and row 1 is not.
C36_Witness ==
    /\ \A p \in Procs : pc[p] = "idle"
    /\ textStatus = "noTextLayers"
    /\ csvLen = 2
    /\ processedRows = 1
    /\ ~isProcessing

\* C37: processLayer applies the text before it updates the font size: a
\* font-size update runs, and a size is changed, only on a layer whose text
\* (when the row has one for it) is already changed and did not fail; a
\* layer whose text replacement failed has neither its text nor its size
\* changed; a layer
\* whose font-size update failed is in the error list of the row and not in
\* its layer updates, although its text is changed.
C37_TextBeforeFontSize ==
    /\ rpc \in {"font", "fontRelay"}
          => /\ << "LAYER", CurLayer, "text" >> \notin errors
             /\ WantsText(CurLayer) => CurLayer \in textChanged
    /\ \A n \in sizeChanged : WantsText(n) => n \in textChanged
    /\ \A e \in errors :
          e[1] = "LAYER"
             => /\ e[2] \notin layerUpdates
                /\ e[3] = "text" => e[2] \notin textChanged \cup sizeChanged
                /\ e[3] \in {"font", "relay"} /\ WantsText(e[2]) => e[2] \in textChanged

\* The row has a text and a font size for both layers: the text of layer 1
\* failed and its size was left alone; the text of layer 2 was changed, its
\* font-size update failed, and the row returns with no layer update.
C37_Witness ==
    /\ rpc = "returned"
    /\ rowFont[1]
    /\ << "LAYER", 1, "text" >> \in errors
    /\ 1 \notin sizeChanged
    /\ << "LAYER", 2, "font" >> \in errors
    /\ 2 \in textChanged
    /\ layerUpdates = {}

\* C38: the file a row is exported to is named by its text1 and text2
\* alone: the name is text1 ('default' when it is empty), '_' and text2,
\* with every character outside [a-zA-Z0-9] replaced by '_', followed by
\* '.png'; rows with the same texts go to the same file; the folder holds
\* one file for each name exported to, written by the last row exported
\* under that name, so it holds no more files than rows were exported.
C38_FileNameFromTexts ==
    LET exports == naming.exports
        pngFiles == naming.pngFiles
    IN  /\ \A i \in DOMAIN exports :
              LET e == exports[i]
                  content == (IF e.text1 = << >> THEN << "d", "e", "f", "a", "u", "l", "t" >>
                              ELSE e.text1) \o << "_" >> \o e.text2
              IN  /\ Len(e.file) = Len(content) + 1
                  /\ e.file[Len(e.file)] = ".png"
                  /\ \A j \in DOMAIN content :
                        e.file[j] = IF content[j] \in AlphaNumeric THEN content[j] ELSE "_"
        /\ \A i, j \in DOMAIN exports :
              exports[i].text1 = exports[j].text1 /\ exports[i].text2 = exports[j].text2
                 => exports[i].file = exports[j].file
        /\ { f[1] : f \in pngFiles } = { exports[i].file : i \in DOMAIN exports }
        /\ \A f \in pngFiles :
              /\ exports[f[2]].file = f[1]
              /\ \A i \in DOMAIN exports : exports[i].file = f[1] => i <= f[2]
        /\ Cardinality(pngFiles) <= Len(exports)

\* Two rows with different texts were exported and the folder holds one
\* file, written by the second.
C38_Witness ==
    /\ Len(naming.exports) = 2
    /\ naming.exports[1].text1 # naming.exports[2].text1
    /\ naming.pngFiles = { << naming.exports[2].file, 2 >> }

\* C39: executeWithRetry issues the command at most maxRetries times; only
\* the last attempt issued can have succeeded, and then its result is what
\* the call returns; the j-th wait follows failed attempt j - 1 (counted
\* from 0), lasts 100 * 2^(j - 1) ms and is followed by another attempt:
\* there is a wait after every failed attempt but the last one allowed, and
\* none after that one or after a success; the call throws after
\* maxRetries failures, and what it throws is the error of the last one
\* (nothing was attempted when maxRetries is 0, and it throws undefined).
C39_RetryBounded ==
    LET tried == retry.tried
        waited == retry.waited
    IN  /\ Len(tried) <= retry.maxRetries
        /\ \A k \in DOMAIN tried : k < Len(tried) => tried[k] \in RetryErrors
        /\ retry.pc = "returned"
              => /\ tried[Len(tried)] \in RetryResults
                 /\ retry.out = tried[Len(tried)]
        /\ \A j \in DOMAIN waited :
              /\ waited[j][1] = j - 1
              /\ waited[j][2] = 100 * 2^(j - 1)
              /\ j < retry.maxRetries
              /\ tried[j] \in RetryErrors
        /\ Len(waited) = IF retry.pc \in {"entry", "call", "wait"} \/ Len(tried) = 0
                         THEN Len(tried) ELSE Len(tried) - 1
        /\ retry.pc = "thrown"
              => /\ Len(tried) = retry.maxRetries
                 /\ \A k \in DOMAIN tried : tried[k] \in RetryErrors
                 /\ retry.out = IF retry.maxRetries = 0 THEN "undefined"
                                ELSE tried[retry.maxRetries]

\* Three attempts of three have failed, with waits of 100 and 200 ms
\* between them, and the error of the third is thrown.
C39_Witness ==
    /\ retry.pc = "thrown"
    /\ retry.maxRetries = 3
    /\ retry.tried = << "e1", "e1", "e2" >>
    /\ retry.waited = << << 0, 100 >>, << 1, 200 >> >>
    /\ retry.out = "e2"

====
